---- MODULE Spec2Model ----
(***************************************************************************)
(* Model of src/extract.py: class Extract (make_unique_directory_name,     *)
(* tar, gz, walk_tree_and_extract, extract) over an explicit filesystem.   *)
(*                                                                         *)
(* A string is a sequence of one-character strings, so that the regular    *)
(* expression of make_unique_directory_name, pathlib's parsing of a string *)
(* into components and str.lower() are computed character by character.    *)
(* The filesystem is a function from posix path strings to nodes.          *)
(***************************************************************************)
EXTENDS Naturals, Sequences, FiniteSets

\* ------------------------------------------------------------------ bounds
\* Deepest stack of walk_tree_and_extract frames the model follows. The walks
\* of the filesystems below stay under it; a walk that reached it with files
\* left to visit would stay "walking" for ever, which C10 excludes.
MaxDepth == 5

\* ----------------------------------------------------------------- strings
DigitChars == <<"0", "1", "2", "3", "4", "5", "6", "7", "8", "9">>
UpperChars == <<"A", "B", "C", "D", "E", "F", "G", "H", "I", "J", "K", "L", "M",
                "N", "O", "P", "Q", "R", "S", "T", "U", "V", "W", "X", "Y", "Z">>
LowerChars == <<"a", "b", "c", "d", "e", "f", "g", "h", "i", "j", "k", "l", "m",
                "n", "o", "p", "q", "r", "s", "t", "u", "v", "w", "x", "y", "z">>

\* \d of the regular expression (line 48).
IsDigit(c) == \E i \in 1..10 : DigitChars[i] = c

DigitVal(c) == (CHOOSE i \in 1..10 : DigitChars[i] = c) - 1

\* int(match.group('num')) (line 51): decimal value of a digit string.
RECURSIVE IntOf(_)
IntOf(ds) ==
    IF ds = <<>> THEN 0
    ELSE 10 * IntOf(SubSeq(ds, 1, Len(ds) - 1)) + DigitVal(ds[Len(ds)])

\* "%d" % n (lines 52, 57): decimal digits of a natural number.
RECURSIVE StrOf(_)
StrOf(n) ==
    IF n < 10 THEN <<DigitChars[n + 1]>>
    ELSE StrOf(n \div 10) \o <<DigitChars[(n % 10) + 1]>>

\* str.lower() (lines 171, 174), one character.
LowerChar(c) ==
    IF \E i \in 1..26 : UpperChars[i] = c
    THEN LowerChars[CHOOSE i \in 1..26 : UpperChars[i] = c]
    ELSE c

\* str.lower() (lines 171, 174).
Lower(s) == [i \in 1..Len(s) |-> LowerChar(s[i])]

\* ------------------------------------------------------------------ pathlib
\* A Path object: whether it is absolute, and its components.
EmitPart(cur) == IF cur = <<>> \/ cur = <<".">> THEN <<>> ELSE <<cur>>

\* Components of a string: split on "/", empty and "." components dropped.
RECURSIVE SplitFrom(_, _, _)
SplitFrom(s, i, cur) ==
    IF i > Len(s) THEN EmitPart(cur)
    ELSE IF s[i] = "/" THEN EmitPart(cur) \o SplitFrom(s, i + 1, <<>>)
    ELSE SplitFrom(s, i + 1, Append(cur, s[i]))

\* Path(s) (lines 45, 78, 124, 164, 194).
PPath(s) == [abs |-> (Len(s) > 0 /\ s[1] = "/"), parts |-> SplitFrom(s, 1, <<>>)]

RECURSIVE JoinParts(_)
JoinParts(ps) ==
    IF ps = <<>> THEN <<>>
    ELSE IF Len(ps) = 1 THEN ps[1]
    ELSE ps[1] \o <<"/">> \o JoinParts(Tail(ps))

\* Path.as_posix() (lines 48, 53, 58, 61, 84, 90, 91, 128, 134, 135, 169).
AsPosix(p) ==
    IF p.abs THEN <<"/">> \o JoinParts(p.parts)
    ELSE IF p.parts = <<>> THEN <<".">>
    ELSE JoinParts(p.parts)

\* Path.parent (lines 47, 81, 126).
Parent(p) ==
    IF p.parts = <<>> THEN p
    ELSE [abs |-> p.abs, parts |-> SubSeq(p.parts, 1, Len(p.parts) - 1)]

\* Path.name: the final component.
Name(p) == IF p.parts = <<>> THEN <<>> ELSE p.parts[Len(p.parts)]

\* Index of the last "." of a name, 0 when there is none.
LastDot(n) ==
    IF \E i \in 1..Len(n) : n[i] = "."
    THEN CHOOSE i \in 1..Len(n) : n[i] = "." /\ \A j \in (i + 1)..Len(n) : n[j] # "."
    ELSE 0

\* Path.suffix (lines 168, 194): from the last dot, unless the dot is the
\* first or the last character of the name.
Suffix(p) ==
    LET n == Name(p)
        i == LastDot(n)
    IN IF 1 < i /\ i < Len(n) THEN SubSeq(n, i, Len(n)) ELSE <<>>

\* Path.stem (lines 57, 84, 128, 134): the name without its suffix.
Stem(p) ==
    LET n == Name(p)
        i == LastDot(n)
    IN IF 1 < i /\ i < Len(n) THEN SubSeq(n, 1, i - 1) ELSE n

\* Path / str (lines 53, 58, 84, 128, 134): an absolute right operand
\* replaces the left one.
Div(p, s) ==
    LET q == PPath(s)
    IN IF q.abs THEN q ELSE [abs |-> p.abs, parts |-> p.parts \o q.parts]

\* --------------------------------------------------------------- filesystem
\* File contents. A tar archive holds its members in archive order; a gzip
\* stream holds the one stream it compresses as its only member.
Plain == [type |-> "plain", members |-> <<>>]

TarOf(ms) == [type |-> "tar", members |-> ms]

GzOf(c) == [type |-> "gz", members |-> <<[name |-> <<>>, data |-> c]>>]

\* A gzip stream cut before its end-of-stream marker.
TruncGz == [type |-> "truncgz", members |-> <<>>]

DirNode == [kind |-> "dir", data |-> Plain]

FileNode(c) == [kind |-> "file", data |-> c]

\* Path.exists() (line 46).
Exists(f, s) == s \in DOMAIN f

\* Path.is_file() (line 165).
IsFile(f, s) == s \in DOMAIN f /\ f[s].kind = "file"

IsDir(f, s) == s \in DOMAIN f /\ f[s].kind = "dir"

Put(f, s, node) == [q \in DOMAIN f \cup {s} |-> IF q = s THEN node ELSE f[q]]

\* Path.unlink() (lines 100, 145).
Unlink(f, s) == [q \in DOMAIN f \ {s} |-> f[q]]

\* The absent result of tar and gz (the implicit None of lines 105-107, 149-151).
None == <<>>

\* ------------------------------------------------ make_unique_directory_name
\* The regular expression "(?P<name>.*)[ ](?P<num>\d+).*$" matched at the start
\* of the string (line 48): the greedy name group ends at the LAST space that a
\* digit follows, wherever in the path that is. 0: no match.
MatchIdx(s) ==
    LET hits == {i \in 1..(Len(s) - 1) : s[i] = " " /\ IsDigit(s[i + 1])}
    IN IF hits = {} THEN 0 ELSE CHOOSE i \in hits : \A j \in hits : j <= i

\* match.group('name') (line 52).
MatchName(s) == SubSeq(s, 1, MatchIdx(s) - 1)

\* match.group('num') (line 51): the longest run of digits after the space.
MatchNum(s) ==
    LET i == MatchIdx(s)
        e == CHOOSE k \in (i + 1)..Len(s) :
                 /\ \A j \in (i + 1)..k : IsDigit(s[j])
                 /\ (k = Len(s) \/ ~IsDigit(s[k + 1]))
    IN SubSeq(s, i + 1, e)

\* The next candidate (lines 47-58) for an existing directory dp whose posix
\* string is str: the number of the match incremented, or " 1" appended to
\* the stem; either name is joined to the parent of dp.
NextCandidate(dp, str) ==
    IF MatchIdx(str) > 0
    THEN AsPosix(Div(Parent(dp), MatchName(str) \o <<" ">> \o StrOf(IntOf(MatchNum(str)) + 1)))
    ELSE AsPosix(Div(Parent(dp), Stem(dp) \o <<" ", "1">>))

\* make_unique_directory_name (lines 45-61).
RECURSIVE make_unique_directory_name(_, _)
make_unique_directory_name(f, directorypath) ==
    IF Exists(f, AsPosix(PPath(directorypath)))
    THEN make_unique_directory_name(f, NextCandidate(PPath(directorypath),
                                                     AsPosix(PPath(directorypath))))
    ELSE AsPosix(PPath(directorypath))

\* ------------------------------------------------------------ tar and gz
\* The extract_to argument: absent (None), a Path object, or a str (what the
\* docstrings of tar and gz ask for).
NoneArg == [kind |-> "none", s |-> <<>>]

PathArg(s) == [kind |-> "path", s |-> s]

StrArg(s) == [kind |-> "str", s |-> s]

\* Errors the operating system can raise at a step whatever the filesystem
\* holds (permission denied, disk full): the step of tar or gz that fails.
Faults == {"none", "mkdir", "open", "write", "unlink"}

\* Path.mkdir() (lines 88, 132) succeeds when the path does not exist and its
\* parent is a directory.
MkdirOk(f, s) == ~Exists(f, s) /\ IsDir(f, AsPosix(Parent(PPath(s))))

\* The destination of tar (lines 80-88) and of gz (lines 125-132, the same
\* statements). err: "none", "oserror" (mkdir raised an OSError), or "raised"
\* (str / str and str.as_posix() raise TypeError or AttributeError, which the
\* handler of lines 105 and 149 does not catch).
MakeDest(f, uniq, fault) ==
    IF fault = "mkdir" \/ ~MkdirOk(f, uniq)
    THEN [fs |-> f, dir |-> None, err |-> "oserror"]
    ELSE [fs |-> Put(f, uniq, DirNode), dir |-> uniq, err |-> "none"]

DestBase(fp, extract_to) ==
    IF extract_to.kind = "none" THEN Parent(fp) ELSE PPath(extract_to.s)

\* The directories tarfile creates above a member (os.makedirs).
RECURSIVE MakeDirs(_, _)
MakeDirs(f, p) ==
    IF p.parts = <<>> \/ Exists(f, AsPosix(p)) THEN f
    ELSE Put(MakeDirs(f, Parent(p)), AsPosix(p), DirNode)

\* The directory of the archive's stem made with makedirs(exist_ok=True) and not
\* passed through make_unique_directory_name.
ResolveDestInPlace(f, fp, extract_to, create_dir, fault) ==
    IF extract_to.kind = "str"
    THEN [fs |-> f, dir |-> None, err |-> "raised"]
    ELSE IF ~create_dir
    THEN [fs |-> f, dir |-> AsPosix(DestBase(fp, extract_to)), err |-> "none"]
    ELSE IF fault = "mkdir" \/ IsFile(f, AsPosix(Div(DestBase(fp, extract_to), Stem(fp))))
    THEN [fs |-> f, dir |-> None, err |-> "oserror"]
    ELSE [fs |-> MakeDirs(f, Div(DestBase(fp, extract_to), Stem(fp))),
          dir |-> AsPosix(Div(DestBase(fp, extract_to), Stem(fp))), err |-> "none"]

ResolveDest(f, fp, extract_to, create_dir, fault) ==
    IF extract_to.kind = "str"
    THEN [fs |-> f, dir |-> None, err |-> "raised"]
    ELSE IF ~create_dir
    THEN [fs |-> f, dir |-> AsPosix(DestBase(fp, extract_to)), err |-> "none"]
    ELSE MakeDest(f, make_unique_directory_name(
                         f, AsPosix(Div(DestBase(fp, extract_to), Stem(fp)))), fault)

\* What a call of tar or gz leaves: the filesystem, the value returned (None:
\* no result), whether an exception left the call, the directory contents were
\* written into (None: the call did not get that far), and whether all of the
\* contents were written.
Out(f, result, raised, dest, full) ==
    [fs |-> f, result |-> result, raised |-> raised, dest |-> dest, full |-> full]

\* tarfile.open (line 94) reads a tar archive, compressed or not.
TarReadable(c) ==
    \/ c.type = "tar"
    \/ c.type = "gz" /\ c.members[1].data.type = "tar"

TarMembers(c) == IF c.type = "tar" THEN c.members ELSE c.members[1].data.members

\* A file whose writing was interrupted.
Partial == [type |-> "partial", members |-> <<>>]

\* A file opened for writing and not written yet.
Empty == [type |-> "empty", members |-> <<>>]

\* Where extractall writes member m of an archive extracted into dest.
MemberTarget(dest, m) == AsPosix(Div(PPath(dest), m.name))

\* One member written, the directories above it made.
WriteMember(f, target, c) == Put(MakeDirs(f, Parent(PPath(target))), target, FileNode(c))

\* tar.extractall(extract_to) (line 95): the members in archive order, each
\* written over what is there; a member whose target is a directory, or whose
\* writing fails (failAt: its index, 0 for none), raises an OSError and leaves
\* the members before it written.
RECURSIVE ExtractAll(_, _, _, _)
ExtractAll(f, dest, ms, failAt) ==
    IF ms = <<>> THEN [fs |-> f, ok |-> TRUE]
    ELSE IF IsDir(f, MemberTarget(dest, Head(ms))) THEN [fs |-> f, ok |-> FALSE]
    ELSE IF failAt = 1
    THEN [fs |-> WriteMember(f, MemberTarget(dest, Head(ms)), Partial), ok |-> FALSE]
    ELSE ExtractAll(WriteMember(f, MemberTarget(dest, Head(ms)), Head(ms).data), dest, Tail(ms),
                    IF failAt = 0 THEN 0 ELSE failAt - 1)

\* Lines 99-103 of tar and 144-147 of gz: the source is unlinked when delete
\* is set, and the destination returned.
DeleteAndReturn(f, src, delete, fault, result, dest) ==
    IF ~delete THEN Out(f, result, FALSE, dest, TRUE)
    ELSE IF fault = "unlink" \/ ~Exists(f, src) THEN Out(f, None, FALSE, dest, TRUE)
    ELSE Out(Unlink(f, src), result, FALSE, dest, TRUE)

\* The member whose writing the fault "write" interrupts: the last one.
WriteFailAt(ms, fault) == IF fault = "write" THEN Len(ms) ELSE 0

\* Lines 96-103 of tar, x being what extractall left: an OSError of extractall
\* ends the call with no result.
AfterExtract(x, src, dest, delete, fault) ==
    IF ~x.ok THEN Out(x.fs, None, FALSE, dest, FALSE)
    ELSE DeleteAndReturn(x.fs, src, delete, fault, dest, dest)

\* A slip in the order of tar's statements: the source is unlinked before
\* extractall runs.
TarBodyDeleteFirst(f, src, dest, delete, fault) ==
    IF ~IsFile(f, src) \/ fault = "open" THEN Out(f, None, FALSE, None, FALSE)
    ELSE IF ~TarReadable(f[src].data) THEN Out(f, None, TRUE, None, FALSE)
    ELSE AfterExtract(ExtractAll(MakeDirs(IF delete THEN Unlink(f, src) ELSE f, PPath(dest)),
                                 dest, TarMembers(f[src].data),
                                 WriteFailAt(TarMembers(f[src].data), fault)),
                      src, dest, FALSE, fault)

\* Lines 94-103 of tar: open, extractall, close, unlink, return. A missing
\* source or a directory makes tarfile.open raise an OSError; contents that are
\* no tar archive make it raise tarfile.ReadError, which is no OSError and
\* leaves the call.
TarBody(f, src, dest, delete, fault) ==
    IF ~IsFile(f, src) \/ fault = "open" THEN Out(f, None, FALSE, None, FALSE)
    ELSE IF ~TarReadable(f[src].data) THEN Out(f, None, TRUE, None, FALSE)
    ELSE AfterExtract(ExtractAll(MakeDirs(f, PPath(dest)), dest, TarMembers(f[src].data),
                                 WriteFailAt(TarMembers(f[src].data), fault)),
                      src, dest, delete, fault)

\* tar once its destination d is resolved: an exception of lines 80-88 ends the
\* call, in the handler of lines 105-107 when it is an OSError.
TarFrom(d, src, delete, fault) ==
    IF d.err = "raised" THEN Out(d.fs, None, TRUE, None, FALSE)
    ELSE IF d.err = "oserror" THEN Out(d.fs, None, FALSE, None, FALSE)
    ELSE TarBody(d.fs, src, d.dir, delete, fault)

\* Extract.tar (lines 77-107).
tar(f, filepath, extract_to, create_dir, delete, fault) ==
    TarFrom(ResolveDest(f, PPath(filepath), extract_to, create_dir, fault),
            AsPosix(PPath(filepath)), delete, fault)

\* gzfile.read() (line 140): the compressed stream of a gzip file, nothing of
\* an empty file. err: "oserror" (gzip.BadGzipFile) for other contents,
\* "raised" (EOFError, no OSError) for a stream cut short.
GzRead(c) ==
    IF c.type = "gz" THEN [data |-> c.members[1].data, err |-> "none"]
    ELSE IF c.type = "empty" THEN [data |-> Empty, err |-> "none"]
    ELSE IF c.type = "truncgz" THEN [data |-> Empty, err |-> "raised"]
    ELSE [data |-> Empty, err |-> "oserror"]

\* Lines 134-147 of gz: the output path, gzip.open, open(.., "wb"), read and
\* write, close, unlink, return. The output file exists, empty, from line 139
\* on, whatever happens after.
GzWrite(g, r, src, out, dest, delete, fault) ==
    IF r.err = "raised" THEN Out(g, None, TRUE, dest, FALSE)
    ELSE IF r.err = "oserror" \/ fault = "write" THEN Out(g, None, FALSE, dest, FALSE)
    ELSE DeleteAndReturn(Put(g, out, FileNode(r.data)), src, delete, fault, out, dest)

GzOpen(f, src, out, dest, delete, fault) ==
    IF ~IsFile(f, src) \/ fault = "open" THEN Out(f, None, FALSE, None, FALSE)
    ELSE IF IsDir(f, out) \/ ~IsDir(f, AsPosix(Parent(PPath(out))))
    THEN Out(f, None, FALSE, None, FALSE)
    ELSE GzWrite(Put(f, out, FileNode(Empty)), GzRead(Put(f, out, FileNode(Empty))[src].data),
                 src, out, dest, delete, fault)

GzBody(f, fp, dest, delete, fault) ==
    GzOpen(f, AsPosix(fp), AsPosix(Div(PPath(dest), Stem(fp))), dest, delete, fault)

\* gz once its destination d is resolved: an exception of lines 125-132 ends
\* the call, in the handler of lines 149-151 when it is an OSError.
GzFrom(d, fp, delete, fault) ==
    IF d.err = "raised" THEN Out(d.fs, None, TRUE, None, FALSE)
    ELSE IF d.err = "oserror" THEN Out(d.fs, None, FALSE, None, FALSE)
    ELSE GzBody(d.fs, fp, d.dir, delete, fault)

\* Extract.gz (lines 123-151).
gz(f, filepath, extract_to, create_dir, delete, fault) ==
    GzFrom(ResolveDest(f, PPath(filepath), extract_to, create_dir, fault),
           PPath(filepath), delete, fault)

\* ------------------------------------------------------ walk_tree_and_extract
\* Extract.file_extensions (line 19).
file_extensions == {<<".", "t", "a", "r">>, <<".", "t", "g", "z">>,
                    <<".", "t", "b", "z">>, <<".", "t", "b", "2">>}

gz_extension == <<".", "g", "z">>

\* Whether q lies below directory dp, at any depth.
Under(dp, qp) ==
    /\ qp.abs = dp.abs
    /\ Len(qp.parts) > Len(dp.parts)
    /\ SubSeq(qp.parts, 1, Len(dp.parts)) = dp.parts

\* The snapshot of line 165: the files below directory_path whose name matches
\* "*.*". Globbing a path that is no directory yields nothing.
Glob(f, directory_path) ==
    LET dp == PPath(directory_path)
    IN IF ~IsDir(f, AsPosix(dp)) THEN {}
       ELSE {q \in DOMAIN f :
                /\ IsFile(f, q)
                /\ Under(dp, PPath(q))
                /\ \E i \in 1..Len(Name(PPath(q))) : Name(PPath(q))[i] = "."}

\* The dispatch of the walker (lines 168-175): on the lowered suffix.
WalkKind(filepath) ==
    LET extension == Suffix(PPath(filepath))
    IN IF Lower(extension) \in file_extensions THEN "tar"
       ELSE IF Lower(extension) = gz_extension THEN "gz"
       ELSE "skip"

\* The dispatch of extract (lines 194-207): on the suffix as it is written.
ExtractKind(filepath) ==
    LET ext == Suffix(PPath(filepath))
    IN IF ext \in file_extensions THEN "tar"
       ELSE IF ext = gz_extension THEN "gz"
       ELSE "invalid"

Flags(delete, create_dir, gz_create_dir) ==
    [delete |-> delete, create_dir |-> create_dir, gz_create_dir |-> gz_create_dir]

\* The recursive call with the flags of the running invocation handed on.
ThreadedFlags(flags) == flags

\* The flags of the recursive call of line 178: walk_tree_and_extract(new_dir)
\* passes the directory alone, so the callee runs with the defaults of line 154.
RecursiveFlags(flags) == Flags(TRUE, TRUE, FALSE)

\* A running invocation of walk_tree_and_extract: the files of its snapshot
\* still to visit, and its flags.
Frame(f, directory_path, flags) == [files |-> Glob(f, directory_path), flags |-> flags]

\* ------------------------------------------------------------------ inputs
\* Path strings and member names of the filesystems the model starts from.
p_root == <<"/">>

p_d == <<"/", "d">>

p_d_a_tar == <<"/", "d", "/", "a", ".", "t", "a", "r">>

p_d_a == <<"/", "d", "/", "a">>

p_d_a_1 == <<"/", "d", "/", "a", " ", "1">>

p_d_outer_tar == <<"/", "d", "/", "o", "u", "t", "e", "r", ".", "t", "a", "r">>

p_d_bad_tar == <<"/", "d", "/", "b", "a", "d", ".", "t", "a", "r">>

p_d_good_tar == <<"/", "d", "/", "g", "o", "o", "d", ".", "t", "a", "r">>

p_d_A_TAR == <<"/", "d", "/", "A", ".", "T", "A", "R">>

p_d_b_GZ == <<"/", "d", "/", "b", ".", "G", "Z">>

p_d_t_gz == <<"/", "d", "/", "t", ".", "g", "z">>

p_d_n_zip == <<"/", "d", "/", "n", ".", "z", "i", "p">>

p_h == <<"/", "h">>

p_h_t == <<"/", "h", "/", "t">>

p_h_t_1 == <<"/", "h", "/", "t", " ", "1">>

p_h_d_2 == <<"/", "h", "/", "d", " ", "2">>

p_h_d_2_t == <<"/", "h", "/", "d", " ", "2", "/", "t">>

p_h_new == <<"/", "h", "/", "n", "e", "w">>

p_cwd == <<".">>

p_a == <<"a">>

p_a_t == <<"a", "/", "t">>

p_a_t_1 == <<"a", "/", "t", " ", "1">>

p_a_r_tar == <<"a", "/", "r", ".", "t", "a", "r">>

p_a_r == <<"a", "/", "r">>

p_a_r_1 == <<"a", "/", "r", " ", "1">>

n_b_tar == <<"b", ".", "t", "a", "r">>

n_x_txt == <<"x", ".", "t", "x", "t">>

n_y_txt == <<"y", ".", "t", "x", "t">>

n_c_txt == <<"c", ".", "t", "x", "t">>

n_inner_tar_gz == <<"i", "n", "n", "e", "r", ".", "t", "a", "r", ".", "g", "z">>

n_inner_tar == <<"i", "n", "n", "e", "r", ".", "t", "a", "r">>

Member(n, c) == [name |-> n, data |-> c]

\* b.tar: one plain file.
TarB == TarOf(<<Member(n_x_txt, Plain)>>)

\* a.tar: holds b.tar.
TarA == TarOf(<<Member(n_b_tar, TarB)>>)

\* inner.tar: one plain file, c.txt.
TarInner == TarOf(<<Member(n_c_txt, Plain)>>)

\* outer.tar: holds inner.tar.gz, the gzip of inner.tar.
TarOuter == TarOf(<<Member(n_inner_tar_gz, GzOf(TarInner))>>)

\* An archive of two plain files.
TarTwo == TarOf(<<Member(n_x_txt, Plain), Member(n_y_txt, Plain)>>)

FsOf(dirs, files) ==
    [q \in dirs \cup DOMAIN files |-> IF q \in dirs THEN DirNode ELSE FileNode(files[q])]

\* /d/a.tar holding b.tar.
WorldNested == FsOf({p_root, p_d}, [q \in {p_d_a_tar} |-> TarA])

\* /d/outer.tar holding inner.tar.gz.
WorldOuter == FsOf({p_root, p_d}, [q \in {p_d_outer_tar} |-> TarOuter])

\* A file named .tar that is no archive, beside a good archive.
WorldBad == FsOf({p_root, p_d},
                 [q \in {p_d_bad_tar, p_d_good_tar} |-> IF q = p_d_bad_tar THEN Plain ELSE TarB])

\* Upper-case suffixes, a gzip stream cut short, an unknown suffix.
WorldCase == FsOf({p_root, p_d},
                  [q \in {p_d_A_TAR, p_d_b_GZ, p_d_t_gz, p_d_n_zip} |->
                      IF q = p_d_A_TAR THEN TarB
                      ELSE IF q = p_d_b_GZ THEN GzOf(Plain)
                      ELSE IF q = p_d_t_gz THEN TruncGz
                      ELSE Plain])

\* /d/a.tar beside directories /d/a and "/d/a 1" that exist already.
WorldTaken == FsOf({p_root, p_d, p_d_a, p_d_a_1}, [q \in {p_d_a_tar} |-> TarTwo])

\* Directories for the namer, absolute: /h/t, "/h/t 1", and /h/d 2/t below an
\* ancestor whose name ends in a space and a digit.
WorldNamesAbs == FsOf({p_root, p_h, p_h_t, p_h_t_1, p_h_d_2, p_h_d_2_t}, [q \in {} |-> Plain])

\* The same relative to the working directory: a/t, "a/t 1", and an archive
\* a/r.tar beside directories a/r and "a/r 1".
WorldNamesRel == FsOf({p_cwd, p_a, p_a_t, p_a_t_1, p_a_r, p_a_r_1}, [q \in {p_a_r_tar} |-> TarB])

Worlds == {WorldNested, WorldOuter, WorldBad, WorldCase, WorldTaken, WorldNamesAbs,
           WorldNamesRel}

\* Directories a call may name as extract_to.
DestDirs == {p_d, p_a}

\* Paths a call may name that no filesystem holds.
Missing == {p_h_new}

\* ------------------------------------------------------------------- state
\* fs:       the filesystem
\* stack:    the running invocations of walk_tree_and_extract, innermost last
\* status:   "idle" before the call, "walking" inside walk_tree_and_extract,
\*           "done" once the call has returned, "raised" once an exception
\*           has left it
\* call:     the call made and its arguments
\* ret:      what make_unique_directory_name, tar or gz returned to the caller
\* log:      every call of tar and gz made so far, in order
\* last:     the latest call of tar or gz, with the filesystem it started from
\* injected: whether a step was made to fail by the operating system
VARIABLES fs, stack, status, call, ret, log, last, injected

vars == <<fs, stack, status, call, ret, log, last, injected>>

NoFlags == Flags(FALSE, FALSE, FALSE)

Call(op, path, extract_to, recursive, flags, dispatch) ==
    [op |-> op, path |-> path, extract_to |-> extract_to, recursive |-> recursive,
     flags |-> flags, dispatch |-> dispatch]

\* One call of tar or gz as the log keeps it: depth is the number of walker
\* invocations running when it was made (0: made by extract itself).
Entry(op, f, path, create_dir, delete, depth, o) ==
    [op |-> op, path |-> path, create_dir |-> create_dir, delete |-> delete,
     depth |-> depth, result |-> o.result,
     data |-> IF IsFile(f, AsPosix(PPath(path))) THEN f[AsPosix(PPath(path))].data ELSE Empty]

Last(op, f, path, create_dir, delete, fault, o) ==
    [op |-> op, path |-> AsPosix(PPath(path)), create_dir |-> create_dir, delete |-> delete,
     fault |-> fault, result |-> o.result, raised |-> o.raised, dest |-> o.dest,
     full |-> o.full, before |-> DOMAIN f,
     data |-> IF IsFile(f, AsPosix(PPath(path))) THEN f[AsPosix(PPath(path))].data ELSE Empty]

NoLast ==
    [op |-> "none", path |-> None, create_dir |-> FALSE, delete |-> FALSE,
     fault |-> "none", result |-> None, raised |-> FALSE, dest |-> None,
     full |-> FALSE, before |-> {}, data |-> Empty]

Dirs(f) == {q \in DOMAIN f : f[q].kind = "dir"}

Files(f) == {q \in DOMAIN f : f[q].kind = "file"}

\* The extract_to arguments a call is tried with.
ExtractToArgs(f) ==
    {NoneArg} \cup {PathArg(q) : q \in (Dirs(f) \cap DestDirs) \cup Missing}
              \cup {StrArg(q) : q \in Dirs(f) \cap DestDirs}

AllFlags == {Flags(d, c, g) : d \in BOOLEAN, c \in BOOLEAN, g \in BOOLEAN}

Init ==
    /\ fs \in Worlds
    /\ stack = <<>>
    /\ status = "idle"
    /\ call = Call("none", None, NoneArg, FALSE, NoFlags, "none")
    /\ ret = None
    /\ log = <<>>
    /\ last = NoLast
    /\ injected = FALSE

\* A call of make_unique_directory_name (lines 45-61).
CallUnique ==
    \E P \in DOMAIN fs \cup Missing :
        /\ status = "idle"
        /\ call' = Call("unique", P, NoneArg, FALSE, NoFlags, "none")
        /\ ret' = make_unique_directory_name(fs, P)
        /\ status' = "done"
        /\ UNCHANGED <<fs, stack, log, last, injected>>

\* What a call of tar or gz leaves in the state: the filesystem, the log, the
\* latest call.
Recorded(kind, filepath, create_dir, delete, fault, depth, o) ==
    /\ fs' = o.fs
    /\ log' = Append(log, Entry(kind, fs, filepath, create_dir, delete, depth, o))
    /\ last' = Last(kind, fs, filepath, create_dir, delete, fault, o)
    /\ injected' = (injected \/ fault # "none")

Returned(o) ==
    /\ ret' = o.result
    /\ status' = IF o.raised THEN "raised" ELSE "done"
    /\ UNCHANGED stack

\* A call of tar (lines 77-107).
CallTar ==
    \E filepath \in Files(fs) \cup Missing, extract_to \in ExtractToArgs(fs),
       create_dir \in BOOLEAN, delete \in BOOLEAN, fault \in Faults :
        /\ status = "idle"
        /\ call' = Call("tar", filepath, extract_to, FALSE, Flags(delete, create_dir, FALSE), "tar")
        /\ \E o \in {tar(fs, filepath, extract_to, create_dir, delete, fault)} :
               /\ Recorded("tar", filepath, create_dir, delete, fault, 0, o)
               /\ Returned(o)

\* A call of gz (lines 123-151).
CallGz ==
    \E filepath \in Files(fs) \cup Missing, extract_to \in ExtractToArgs(fs),
       create_dir \in BOOLEAN, delete \in BOOLEAN, fault \in Faults :
        /\ status = "idle"
        /\ call' = Call("gz", filepath, extract_to, FALSE, Flags(delete, FALSE, create_dir), "gz")
        /\ \E o \in {gz(fs, filepath, extract_to, create_dir, delete, fault)} :
               /\ Recorded("gz", filepath, create_dir, delete, fault, 0, o)
               /\ Returned(o)

\* A call of walk_tree_and_extract: the snapshot of lines 164-165.
CallWalk ==
    \E directory_path \in DOMAIN fs \cup Missing, flags \in AllFlags :
        /\ status = "idle"
        /\ call' = Call("walk", directory_path, NoneArg, TRUE, flags, "none")
        /\ stack' = <<Frame(fs, directory_path, flags)>>
        /\ status' = "walking"
        /\ UNCHANGED <<fs, ret, log, last, injected>>

\* Lines 171-175: the file handed to tar with create_dir, to gz with
\* gz_create_dir, or left alone. Inside a walk the operating system is taken
\* not to fail a step by itself: a call fails there for what the filesystem
\* holds (a file that is no archive, a source an earlier call deleted).
WalkDispatch(f, kind, filepath, flags) ==
    IF kind = "tar" THEN tar(f, filepath, NoneArg, flags.create_dir, flags.delete, "none")
    ELSE IF kind = "gz" THEN gz(f, filepath, NoneArg, flags.gz_create_dir, flags.delete, "none")
    ELSE Out(f, None, FALSE, None, FALSE)

\* The stack after one turn of the loop whose call returned o: the file is
\* off the snapshot, and a result that is not None starts the recursive
\* invocation of line 178, whose snapshot is taken at once. An exception
\* leaves every running invocation.
Walked(top, filepath, o) ==
    /\ IF o.raised
       THEN stack' = <<>> /\ status' = "raised"
       ELSE /\ status' = "walking"
            /\ stack' = IF o.result # None
                        THEN Append([stack EXCEPT ![Len(stack)].files = @ \ {filepath}],
                                    Frame(o.fs, o.result, RecursiveFlags(top.flags)))
                        ELSE [stack EXCEPT ![Len(stack)].files = @ \ {filepath}]

\* One turn of the loop of lines 167-178 in the innermost invocation.
WalkTurn(top, filepath, kind, o) ==
    /\ IF kind = "skip"
       THEN UNCHANGED <<fs, log, last, injected>>
       ELSE Recorded(kind, filepath,
                     IF kind = "tar" THEN top.flags.create_dir ELSE top.flags.gz_create_dir,
                     top.flags.delete, "none", Len(stack), o)
    /\ Walked(top, filepath, o)
    /\ UNCHANGED <<call, ret>>

\* The innermost invocation has a file of its snapshot left to visit, and the
\* stack is within the depth the model follows.
CanStep ==
    /\ status = "walking"
    /\ stack # <<>>
    /\ stack[Len(stack)].files # {}
    /\ Len(stack) < MaxDepth

\* The loop of lines 167-178: any file of the snapshot may come next (glob
\* yields them in the order of the directory listing).
WalkStep ==
    /\ CanStep
    /\ \E filepath \in stack[Len(stack)].files :
           \E o \in {WalkDispatch(fs, WalkKind(filepath), filepath, stack[Len(stack)].flags)} :
               WalkTurn(stack[Len(stack)], filepath, WalkKind(filepath), o)

\* The loop of lines 167-178 is over: the innermost invocation returns.
WalkReturn ==
    /\ status = "walking"
    /\ stack # <<>>
    /\ stack[Len(stack)].files = {}
    /\ stack' = SubSeq(stack, 1, Len(stack) - 1)
    /\ status' = IF Len(stack) = 1 THEN "done" ELSE "walking"
    /\ UNCHANGED <<fs, call, ret, log, last, injected>>

\* Lines 197-203: the one extraction extract makes, with create_dir=True and
\* delete=False.
ExtractDispatch(f, kind, filepath, extract_to, fault) ==
    IF kind = "tar" THEN tar(f, filepath, extract_to, TRUE, FALSE, fault)
    ELSE IF kind = "gz" THEN gz(f, filepath, extract_to, TRUE, FALSE, fault)
    ELSE Out(f, None, FALSE, None, FALSE)

\* Lines 205-211, o being what the extraction returned: an unknown suffix
\* ends the call; a result that is not None is walked with the caller's flags
\* when recursive is set.
Extracted(filepath, kind, recursive, flags, fault, o) ==
    /\ kind = "invalid" => fault = "none"
    /\ IF kind = "invalid"
       THEN UNCHANGED <<fs, log, last, injected>>
       ELSE Recorded(kind, filepath, TRUE, FALSE, fault, 0, o)
    /\ stack' = IF recursive /\ o.result # None /\ ~o.raised
                THEN <<Frame(o.fs, o.result, flags)>>
                ELSE <<>>
    /\ status' = IF o.raised THEN "raised"
                 ELSE IF recursive /\ o.result # None THEN "walking"
                 ELSE "done"
    /\ UNCHANGED ret

\* A call of extract (lines 194-211).
CallExtract ==
    \E filepath \in Files(fs) \cup Missing, extract_to \in ExtractToArgs(fs),
       recursive \in BOOLEAN, flags \in AllFlags, fault \in Faults :
        /\ status = "idle"
        /\ call' = Call("extract", filepath, extract_to, recursive, flags, ExtractKind(filepath))
        /\ \E o \in {ExtractDispatch(fs, ExtractKind(filepath), filepath, extract_to, fault)} :
               Extracted(filepath, ExtractKind(filepath), recursive, flags, fault, o)

Next ==
    \/ CallUnique
    \/ CallTar
    \/ CallGz
    \/ CallWalk
    \/ CallExtract
    \/ WalkStep
    \/ WalkReturn

Spec == Init /\ [][Next]_vars

\* The calls of walk_tree_and_extract alone.
NextWalk ==
    \/ CallWalk
    \/ WalkStep
    \/ WalkReturn

\* The program is sequential and runs every statement it reaches: a running
\* walk takes the next turn of its loop, and returns when the loop is over.
\* WalkStep is enabled exactly when CanStep holds (a turn is possible for any
\* file left, and takes it off the snapshot), so its weak fairness is stated
\* with CanStep for ENABLED <<WalkStep>>_vars.
LiveSpec ==
    /\ Init
    /\ [][NextWalk]_vars
    /\ ([]<>(~CanStep) \/ []<><<WalkStep>>_vars)
    /\ WF_vars(WalkReturn)

\* ------------------------------------------------------------------ claims
Finished == status \in {"done", "raised"}

\* The calls of tar and gz that walk_tree_and_extract made.
WalkerCalls == {i \in DOMAIN log : log[i].depth >= 1}

\* C1: in a walk (started directly or by extract with recursive=True) every
\* call of tar and gz, at any depth, is made with the delete, create_dir and
\* gz_create_dir flags the caller gave, and with delete=False no archive the
\* walk extracts is deleted.
C1_FlagsThreaded ==
    call.op \in {"walk", "extract"} =>
        \A i \in WalkerCalls :
            /\ log[i].delete = call.flags.delete
            /\ log[i].create_dir = IF log[i].op = "tar" THEN call.flags.create_dir
                                   ELSE call.flags.gz_create_dir
            /\ (~call.flags.delete /\ log[i].result # None) => Exists(fs, log[i].path)

\* C2: extract(outer.tar, recursive=True), outer.tar holding inner.tar.gz, ends
\* with the contents of inner.tar (c.txt) on disk and, with delete=True, with
\* neither inner.tar.gz nor inner.tar left.
C2_NestedExtraction ==
    (/\ status = "done"
     /\ call.op = "extract"
     /\ call.path = p_d_outer_tar
     /\ call.recursive
     /\ ~injected
     /\ log # <<>>
     /\ log[1].result # None)
    => /\ \E q \in Files(fs) : Name(PPath(q)) = n_c_txt
       /\ call.flags.delete =>
              \A q \in Files(fs) : Name(PPath(q)) \notin {n_inner_tar_gz, n_inner_tar}

\* "P n": the path with a space and the number n appended.
Numbered(P, n) == P \o <<" ">> \o StrOf(n)

\* The name C3 states: P when it does not exist, else "P (k+1)" for the k such
\* that P, "P 1", ..., "P k" exist and "P (k+1)" does not.
ClaimedUnique(f, P) ==
    IF ~Exists(f, P) THEN P
    ELSE Numbered(P, CHOOSE n \in 1..(Cardinality(DOMAIN f) + 1) :
                         /\ ~Exists(f, Numbered(P, n))
                         /\ \A j \in 1..(n - 1) : Exists(f, Numbered(P, j)))

\* C3: make_unique_directory_name returns P unchanged when P does not exist,
\* and "P (k+1)" when P, "P 1", ..., "P k" exist and "P (k+1)" does not, for
\* absolute and relative P, with or without parent components.
C3_Uniqueness ==
    (status = "done" /\ call.op = "unique") => ret = ClaimedUnique(fs, call.path)

\* C4: the path make_unique_directory_name returns has the same parent
\* directory as the candidate it was given.
C4_SameParent ==
    (status = "done" /\ call.op = "unique") =>
        Parent(PPath(ret)) = Parent(PPath(call.path))

\* C5: no exception leaves tar, gz or walk_tree_and_extract: a failure ends in
\* an absent result, and the walk goes on with the rest of its snapshot.
C5_NoException ==
    (call.op \in {"tar", "gz", "walk"} /\ call.extract_to.kind # "str") => status # "raised"

\* Whether all the contents of the source of call l are on disk in f: every
\* member of the archive below the destination, or the decompressed stream at
\* the destination's file of the source's stem.
ContentsWritten(l, f) ==
    /\ l.dest # None
    /\ IF l.op = "tar"
       THEN /\ TarReadable(l.data)
            /\ \A i \in DOMAIN TarMembers(l.data) :
                   /\ IsFile(f, MemberTarget(l.dest, TarMembers(l.data)[i]))
                   /\ f[MemberTarget(l.dest, TarMembers(l.data)[i])].data
                          = TarMembers(l.data)[i].data
       ELSE /\ GzRead(l.data).err = "none"
            /\ IsFile(f, AsPosix(Div(PPath(l.dest), Stem(PPath(l.path)))))
            /\ f[AsPosix(Div(PPath(l.dest), Stem(PPath(l.path))))].data = GzRead(l.data).data

\* C6: after a call of tar or gz with delete=True on a source that existed, the
\* source is absent when the call returned a destination, is still present
\* when the call gave no result, and is absent only with all of its contents
\* written.
C6_DeletionOrdering ==
    (last.op \in {"tar", "gz"} /\ last.delete /\ last.path \in last.before) =>
        /\ last.result # None => ~Exists(fs, last.path)
        /\ last.result = None => Exists(fs, last.path)
        /\ ~Exists(fs, last.path) => ContentsWritten(last, fs)

\* A call of tar with delete=True failed while writing the last member: the
\* first member is on disk, the last one half-written, the source still there.
C6_Witness ==
    /\ last.op = "tar"
    /\ last.delete
    /\ last.fault = "write"
    /\ last.result = None
    /\ last.data = TarTwo
    /\ Exists(fs, last.path)
    /\ \E q \in Files(fs) : fs[q].data = Partial

\* C7 as stated: for every value of create_dir, the directory a call of tar or
\* gz writes contents into did not exist before the call.
C7_Original ==
    (last.op \in {"tar", "gz"} /\ last.dest # None) => last.dest \notin last.before

\* C7 amended: with create_dir=True, the directory a call of tar or gz writes
\* contents into did not exist before the call.
C7_Amended ==
    (last.op \in {"tar", "gz"} /\ last.create_dir /\ last.dest # None) =>
        last.dest \notin last.before

\* A call with create_dir=True extracted although the directory of the
\* archive's stem existed already, into a directory of another name.
C7_Witness ==
    /\ last.op \in {"tar", "gz"}
    /\ last.create_dir
    /\ last.result # None
    /\ last.dest # None
    /\ AsPosix(Div(Parent(PPath(last.path)), Stem(PPath(last.path)))) \in last.before
    /\ IsDir(fs, last.dest)

\* C8: extract recognises exactly the files walk_tree_and_extract recognises,
\* whatever the case of the suffix.
C8_SameRecognition ==
    call.op = "extract" =>
        call.dispatch = IF WalkKind(call.path) = "skip" THEN "invalid"
                        ELSE WalkKind(call.path)

\* The successful extractions of archives with contents c.
ExtractionsOf(c) == {i \in DOMAIN log : log[i].data = c /\ log[i].result # None}

\* C9: one walk of a directory holding a.tar, whose extraction produces b.tar,
\* extracts a.tar exactly once and b.tar exactly once, b.tar by a recursive
\* invocation.
C9_ExactlyOnce ==
    (/\ status = "done"
     /\ call.op = "walk"
     /\ call.path = p_d
     /\ ~injected
     /\ log # <<>>
     /\ log[1].data = TarA)
    => /\ Cardinality(ExtractionsOf(TarA)) = 1
       /\ Cardinality(ExtractionsOf(TarB)) = 1
       /\ \A i \in ExtractionsOf(TarB) : log[i].depth >= 2

\* C10: walk_tree_and_extract, once running, ends (by returning or by an
\* exception), whatever the flags and the files it finds.
C10_Terminates == (status = "walking") ~> Finished

\* A walk with create_dir=False and delete=False has ended, in which tar
\* returned the source's own parent directory and the recursive invocation
\* on it extracted the same source again.
C10_Witness ==
    /\ status = "done"
    /\ call.op = "walk"
    /\ ~call.flags.create_dir
    /\ ~call.flags.delete
    /\ ~injected
    /\ \E i, j \in DOMAIN log :
           /\ i < j
           /\ log[i].op = "tar"
           /\ log[i].result = AsPosix(Parent(PPath(log[i].path)))
           /\ log[j].path = log[i].path
           /\ log[j].depth > log[i].depth
           /\ log[j].result # None

====
